---- MODULE Spec2Model ----
(***************************************************************************)
(* Model of seed-agents.py: the command line is parsed, seed_database      *)
(* walks a prefix of DEMO_AGENTS, registers each profile with the remote   *)
(* service, creates 1..5 posts for every profile whose registration        *)
(* returned a result, sleeps between profiles, and the main block saves    *)
(* the report.  The remote service is the environment: every response it   *)
(* can give (status, body, transport fault) is a nondeterministic input.   *)
(* The text and sub-forum of a post are random payload that no branch of   *)
(* the program reads; they are left out of the request record.             *)
(***************************************************************************)
EXTENDS Integers, Sequences, FiniteSets

VARIABLES
    pc,            \* position of the single thread
    argv,          \* sys.argv[1:], each argument a sequence of characters
    count,         \* <<>> for None, <<n>> for the integer n
    agents,        \* the working subset (a sequence of profiles)
    i,             \* loop index of enumerate(agents, 1); past the end once the loop is over
    registered,    \* the accumulating report
    result,        \* what register_agent returned for the current profile
    post_count,    \* random.randint(1, 5) of the current profile
    j,             \* number of iterations of create_posts already run
    posts_created, \* create_posts's counter (0 outside create_posts)
    summary,       \* the two numbers of the final summary lines
    file,          \* seeded-agents.json: <<>> unwritten, <<content>> written
    fileWrites,    \* how many times the file was opened for writing
    exitStatus,    \* -1 while running, else the process's exit status
    lastOut,       \* the last line printed outside create_posts
    log,           \* history: requests sent and sleeps taken, in order
    regResponse,   \* history: the answer to each profile's registration
    postCountOf    \* history: the number of posts drawn for each profile

vars == <<pc, argv, count, agents, i, registered, result, post_count, j,
          posts_created, summary, file, fileWrites, exitStatus,
          lastOut, log, regResponse, postCountOf>>

(***************************************************************************)
(* Bounds and program constants                                            *)
(***************************************************************************)
\* how many profiles of DEMO_AGENTS the model keeps
NumAgents == 2

MinPosts == 1
MaxPosts == 5
HTTP_OK == 200
HTTP_BAD_REQUEST == 400

\* statuses the service answers with besides 200: 400 and a server error
OtherStatuses == {HTTP_BAD_REQUEST, 500}

\* the first profiles of the catalog (name, city, country)
Catalog ==
    << [name |-> "CodeWizard",  city |-> "San Francisco", country |-> "USA"],
       [name |-> "DataDreamer", city |-> "London",        country |-> "UK"],
       [name |-> "PixelPusher", city |-> "Tokyo",         country |-> "Japan"],
       [name |-> "ByteBuilder", city |-> "Berlin",        country |-> "Germany"],
       [name |-> "CloudCraftsman", city |-> "Seattle",    country |-> "USA"] >>

DEMO_AGENTS == SubSeq(Catalog, 1, NumAgents)

\* credentials the service may issue (it may issue the same one twice)
Keys == {"sk_A", "sk_B"}

\* JSON null where a credential is expected
JsonNull == "null"

\* a location the service may put in its own answer
ServerLocation == "server-side-location"

(***************************************************************************)
(* Dictionaries are functions from key strings to strings; a profile held  *)
(* in a dictionary is referred to by its (unique) name.                    *)
(***************************************************************************)
None == [k \in {"None"} |-> "None"]

EmptyDict == [k \in {} |-> ""]

\* a merge in which a location sent by the service wins over the local one
MergeServerFirst(data, agent_data) ==
    [k \in DOMAIN data \cup {"location"} |->
        IF k \in DOMAIN data THEN data[k] ELSE agent_data.name]

\* {**data, "location": agent_data}
MergeLocation(data, agent_data) ==
    [k \in DOMAIN data \cup {"location"} |->
        IF k = "location" THEN agent_data.name ELSE data[k]]

ProfileNamed(n) == CHOOSE p \in {Catalog[k] : k \in 1..Len(Catalog)} : p.name = n

(***************************************************************************)
(* int(sys.argv[1]): surrounding blanks are stripped, one sign is allowed, *)
(* then decimal digits, with single underscores between digits.            *)
(***************************************************************************)
Digits == {"0", "1", "2", "3", "4", "5", "6", "7", "8", "9"}

DigitVal(c) ==
    CASE c = "0" -> 0 [] c = "1" -> 1 [] c = "2" -> 2 [] c = "3" -> 3
      [] c = "4" -> 4 [] c = "5" -> 5 [] c = "6" -> 6 [] c = "7" -> 7
      [] c = "8" -> 8 [] c = "9" -> 9

RECURSIVE StripLeft(_)
StripLeft(s) ==
    IF s # <<>> /\ s[1] = " " THEN StripLeft(Tail(s)) ELSE s

RECURSIVE StripRight(_)
StripRight(s) ==
    IF s # <<>> /\ s[Len(s)] = " " THEN StripRight(SubSeq(s, 1, Len(s) - 1)) ELSE s

Strip(s) == StripRight(StripLeft(s))

Unsigned(s) ==
    LET t == Strip(s) IN IF t # <<>> /\ t[1] \in {"+", "-"} THEN Tail(t) ELSE t

IsNegative(s) == LET t == Strip(s) IN t # <<>> /\ t[1] = "-"

\* a parser that takes the empty digit string for a number
IntParsesEmptyOk(s) ==
    LET u == Unsigned(s) IN
        \A k \in 1..Len(u) :
            \/ u[k] \in Digits
            \/ /\ u[k] = "_"
               /\ 1 < k /\ k < Len(u)
               /\ u[k - 1] \in Digits /\ u[k + 1] \in Digits

\* the strings int() accepts
IntParses(s) ==
    LET u == Unsigned(s) IN
        /\ u # <<>>
        /\ \A k \in 1..Len(u) :
              \/ u[k] \in Digits
              \/ /\ u[k] = "_"
                 /\ 1 < k /\ k < Len(u)
                 /\ u[k - 1] \in Digits /\ u[k + 1] \in Digits

RECURSIVE Magnitude(_, _)
Magnitude(u, acc) ==
    IF u = <<>> THEN acc
    ELSE IF u[1] = "_" THEN Magnitude(Tail(u), acc)
    ELSE Magnitude(Tail(u), 10 * acc + DigitVal(u[1]))

\* the value int() returns for a string it accepts
IntValue(s) ==
    LET m == Magnitude(Unsigned(s), 0) IN IF IsNegative(s) THEN 0 - m ELSE m

\* command-line arguments tried: "abc", "", "1x", "1.5", "-1", "0", "1", "2",
\* " 1", "+1", "0_1"
ArgStrings ==
    { <<"a", "b", "c">>, <<>>, <<"1", "x">>, <<"1", ".", "5">>, <<"-", "1">>,
      <<"0">>, <<"1">>, <<"2">>, <<" ", "1">>, <<"+", "1">>,
      <<"0", "_", "1">> }

ArgChoices == {<<>>} \cup {<<s>> : s \in ArgStrings}

Min(a, b) == IF a < b THEN a ELSE b
Max(a, b) == IF a > b THEN a ELSE b

\* seq[:c] of Python, for any integer c
SlicePrefix(seq, c) ==
    IF c < 0 THEN SubSeq(seq, 1, Max(0, Len(seq) + c))
    ELSE SubSeq(seq, 1, Min(c, Len(seq)))

\* DEMO_AGENTS if count is None else DEMO_AGENTS[:count]
WorkingSubset(cnt) ==
    IF cnt = <<>> THEN DEMO_AGENTS ELSE SlicePrefix(DEMO_AGENTS, cnt[1])

(***************************************************************************)
(* What the remote service can answer                                      *)
(***************************************************************************)
JsonObjects ==
    { f \in UNION { [S -> Keys \cup {JsonNull, ServerLocation}] :
                        S \in SUBSET {"api_key", "location"} } :
        /\ ("api_key" \in DOMAIN f => f["api_key"] \in Keys \cup {JsonNull})
        /\ ("location" \in DOMAIN f => f["location"] = ServerLocation) }

Response(kind, status, taken, form, obj) ==
    [kind |-> kind, status |-> status, taken |-> taken, form |-> form, obj |-> obj]

NoResponse == Response("none", 0, FALSE, "notjson", EmptyDict)

\* requests.post raised (timeout, connection failure)
Fault == Response("fault", 0, FALSE, "notjson", EmptyDict)

RegResponses ==
    {Fault}
    \cup {Response("http", HTTP_OK, FALSE, f, EmptyDict) : f \in {"notjson", "array"}}
    \cup {Response("http", HTTP_OK, FALSE, "object", o) : o \in JsonObjects}
    \cup {Response("http", s, t, "notjson", EmptyDict) :
             s \in OtherStatuses, t \in BOOLEAN}

PostResponses ==
    {Fault}
    \cup {Response("http", s, FALSE, "notjson", EmptyDict) :
             s \in {HTTP_OK} \cup OtherStatuses}

(***************************************************************************)
(* register_agent: the value returned and the line printed ("" for none)   *)
(***************************************************************************)
Returned(ret, out) == [ret |-> ret, out |-> out]

register_agent(agent_data, resp) ==
    IF resp.kind = "fault" THEN Returned(None, "error_registering")
    ELSE IF resp.status = HTTP_OK THEN
        \* response.json() raises on a body that is no JSON, and ** raises on
        \* a JSON value that is no object; both land in the except clause
        IF resp.form = "object"
        THEN Returned(MergeLocation(resp.obj, agent_data), "")
        ELSE Returned(None, "error_registering")
    ELSE IF resp.status = HTTP_BAD_REQUEST /\ resp.taken
        THEN Returned(None, "already_exists_skipping")
    ELSE Returned(None, "failed_to_register")

\* a loop body that does not test the result
TruthyAlways(r) == TRUE

\* truth value of what register_agent returned
Truthy(r) == r # None /\ DOMAIN r # {}

\* result['api_key'][:20] evaluates without raising
KeyPrintable(r) == "api_key" \in DOMAIN r /\ r["api_key"] # JsonNull

\* the credential of the first agent of the report, whoever is processed
FirstCredential == registered[1]["api_key"]

\* the credential seed_database hands to create_posts
PostCredential == result["api_key"]

RegisterEvent(n) == [type |-> "register", name |-> n, key |-> ""]
\* a post request; name is the agent_name create_posts was called with
PostEvent(k, n) == [type |-> "post", name |-> n, key |-> k]
SleepEvent == [type |-> "sleep", name |-> "", key |-> ""]

\* registered.insert(0, result)
PrependResult(reg, r) == <<r>> \o reg

\* registered.append(result)
AppendResult(reg, r) == Append(reg, r)

\* random.randint(1, 5)
PostCountChoices == MinPosts..MaxPosts

\* a loop that gives up at the first transport fault
AfterAttemptBreak(jj, cnt, resp) == IF resp.kind = "fault" THEN cnt ELSE jj + 1

\* for i in range(count): whatever the answer, the next iteration follows
AfterAttempt(jj, cnt, resp) == jj + 1

\* a caller that writes the file whatever the report holds
AlwaysSave(reg) == TRUE

\* if registered:
ShouldSave(reg) == reg # <<>>

\* json.dump(registered, f, indent=2): an array of objects in list order, the
\* location written out as the nested profile
JsonDump(reg) ==
    [k \in 1..Len(reg) |->
        [f \in DOMAIN reg[k] |->
            IF f = "location" THEN ProfileNamed(reg[k][f]) ELSE reg[k][f]]]

\* len(set(a['location']['country'] for a in registered))
Countries(reg) ==
    Cardinality({ProfileNamed(reg[k]["location"]).country : k \in 1..Len(reg)})

(***************************************************************************)
(* Initial state: the process has been started with some command line      *)
(***************************************************************************)
Init ==
    /\ pc = "main"
    /\ argv \in ArgChoices
    /\ count = <<>>
    /\ agents = <<>>
    /\ i = 0
    /\ registered = <<>>
    /\ result = None
    /\ post_count = 0
    /\ j = 0
    /\ posts_created = 0
    /\ summary = <<>>
    /\ file = <<>>
    /\ fileWrites = 0
    /\ exitStatus = -1
    /\ lastOut = ""
    /\ log = <<>>
    /\ regResponse = [k \in 1..NumAgents |-> NoResponse]
    /\ postCountOf = [k \in 1..NumAgents |-> 0]

\* lines 159-166: parse the optional argument, or print the usage and exit
ParseArgs ==
    /\ pc = "main"
    /\ IF argv = <<>>
       THEN /\ pc' = "seed"
            /\ UNCHANGED <<count, lastOut, exitStatus>>
       ELSE IF IntParses(argv[1])
       THEN /\ count' = <<IntValue(argv[1])>>
            /\ lastOut' = "seeding_count_agents"
            /\ pc' = "seed"
            /\ UNCHANGED exitStatus
       ELSE /\ lastOut' = "usage"
            /\ exitStatus' = 1
            /\ pc' = "exited"
            /\ UNCHANGED count
    /\ UNCHANGED <<argv, agents, i, registered, result, post_count, j,
                   posts_created, summary, file, fileWrites, log,
                   regResponse, postCountOf>>

\* lines 121-128: select the working subset, start the loop
SeedStart ==
    /\ pc = "seed"
    /\ agents' = WorkingSubset(count)
    /\ registered' = <<>>
    /\ lastOut' = "seeding_banner"
    /\ i' = 1
    /\ pc' = IF WorkingSubset(count) = <<>> THEN "summary" ELSE "register"
    /\ UNCHANGED <<argv, count, result, post_count, j, posts_created,
                   summary, file, fileWrites, exitStatus, log, regResponse, postCountOf>>

\* lines 128-131 and 67-91: one registration request and its answer
Register ==
    /\ pc = "register"
    /\ \E resp \in RegResponses :
          LET r == register_agent(agents[i], resp) IN
              /\ log' = Append(log, RegisterEvent(agents[i].name))
              /\ regResponse' = [regResponse EXCEPT ![i] = resp]
              /\ result' = r.ret
              /\ lastOut' = IF r.out = "" THEN "registering" ELSE r.out
    /\ pc' = "registered"
    /\ UNCHANGED <<argv, count, agents, i, registered, post_count, j,
                   posts_created, summary, file, fileWrites, exitStatus,
                   postCountOf>>

\* lines 133-139 and 95: record the result and draw the number of posts;
\* printing the credential raises when the answer carries none
HandleResult ==
    /\ pc = "registered"
    /\ IF ~Truthy(result)
       THEN /\ pc' = "delay"
            /\ UNCHANGED <<registered, post_count, j, posts_created,
                           exitStatus, lastOut, postCountOf>>
       ELSE IF ~KeyPrintable(result)
       THEN /\ pc' = "crashed"
            /\ exitStatus' = 1
            /\ lastOut' = "traceback"
            /\ UNCHANGED <<registered, post_count, j, posts_created,
                           postCountOf>>
       ELSE /\ registered' = AppendResult(registered, result)
            /\ \E n \in PostCountChoices :
                  /\ post_count' = n
                  /\ postCountOf' = [postCountOf EXCEPT ![i] = n]
            /\ j' = 0
            /\ posts_created' = 0
            /\ lastOut' = "creating_posts"
            /\ pc' = "posts"
            /\ UNCHANGED exitStatus
    /\ UNCHANGED <<argv, count, agents, i, result, summary, file,
                   fileWrites, log, regResponse>>

\* lines 97-115: one iteration of create_posts
CreatePost ==
    /\ pc = "posts"
    /\ j < post_count
    /\ log' = Append(log, PostEvent(PostCredential, agents[i].name))
    /\ \E resp \in PostResponses :
          /\ IF resp.kind = "fault"
             THEN UNCHANGED posts_created
             ELSE IF resp.status = HTTP_OK
             THEN posts_created' = posts_created + 1
             ELSE UNCHANGED posts_created
          /\ j' = AfterAttempt(j, post_count, resp)
    /\ UNCHANGED <<pc, argv, count, agents, i, registered, result, post_count,
                   summary, file, fileWrites, exitStatus, lastOut, regResponse,
                   postCountOf>>

\* lines 117 and 141-142: create_posts returns its counter, which is printed
PostsDone ==
    /\ pc = "posts"
    /\ j = post_count
    /\ lastOut' = "created_posts"
    /\ j' = 0
    /\ posts_created' = 0
    /\ pc' = "delay"
    /\ UNCHANGED <<argv, count, agents, i, registered, result, post_count, summary, file, fileWrites, exitStatus, log,
                   regResponse, postCountOf>>

\* lines 145-147 and the loop's next iteration
Delay ==
    /\ pc = "delay"
    /\ IF i < Len(agents)
       THEN /\ log' = Append(log, SleepEvent)
            /\ pc' = "register"
       ELSE /\ pc' = "summary"
            /\ UNCHANGED log
    /\ i' = i + 1
    /\ UNCHANGED <<argv, count, agents, registered, result, post_count, j,
                   posts_created, summary, file, fileWrites,
                   exitStatus, lastOut, regResponse, postCountOf>>

\* lines 149-154: the summary, and the report goes back to the caller
Summary ==
    /\ pc = "summary"
    /\ summary' = <<Len(registered), Countries(registered)>>
    /\ lastOut' = "seeding_complete"
    /\ pc' = "save"
    /\ UNCHANGED <<argv, count, agents, i, registered, result, post_count, j,
                   posts_created, file, fileWrites, exitStatus, log,
                   regResponse, postCountOf>>

\* lines 168-174: the caller saves a report that is not empty
Save ==
    /\ pc = "save"
    /\ IF ShouldSave(registered)
       THEN /\ file' = <<JsonDump(registered)>>
            /\ fileWrites' = fileWrites + 1
            /\ lastOut' = "credentials_saved"
       ELSE UNCHANGED <<file, fileWrites, lastOut>>
    /\ exitStatus' = 0
    /\ pc' = "done"
    /\ UNCHANGED <<argv, count, agents, i, registered, result, post_count, j,
                   posts_created, summary, log, regResponse, postCountOf>>

Next ==
    \/ ParseArgs
    \/ SeedStart
    \/ Register
    \/ HandleResult
    \/ CreatePost
    \/ PostsDone
    \/ Delay
    \/ Summary
    \/ Save

Spec == Init /\ [][Next]_vars

(***************************************************************************)
(* Reading the history                                                     *)
(***************************************************************************)
IsRegister(e) == e.type = "register"
IsPost(e) == e.type = "post"
IsSleep(e) == e.type = "sleep"

\* the names carried by the registration requests, in the order sent
RegisteredNames ==
    LET regs == SelectSeq(log, IsRegister) IN [k \in 1..Len(regs) |-> regs[k].name]

NumSleeps == Len(SelectSeq(log, IsSleep))

\* position in log of the registration request of profile p (0 when not sent)
RECURSIVE FindRegister(_, _)
FindRegister(n, q) ==
    IF q > Len(log) THEN 0
    ELSE IF IsRegister(log[q]) /\ log[q].name = n THEN q
    ELSE FindRegister(n, q + 1)

RegPos(p) == FindRegister(DEMO_AGENTS[p].name, 1)

\* position of the first registration request at or after position q (one
\* past the end of log for none)
RECURSIVE NextRegFrom(_)
NextRegFrom(q) ==
    IF q > Len(log) THEN Len(log) + 1
    ELSE IF IsRegister(log[q]) THEN q
    ELSE NextRegFrom(q + 1)

\* the post requests sent while profile p was the one being processed
\* (those after its registration request and before the next one)
PostsOf(p) ==
    LET rp == RegPos(p) IN
        IF rp = 0 THEN {}
        ELSE LET next == NextRegFrom(rp + 1) IN
                 { q \in (rp + 1)..(next - 1) : IsPost(log[q]) }

\* the service accepted the registration and issued a credential
Succeeded(resp) ==
    /\ resp.kind = "http"
    /\ resp.status = 200
    /\ resp.form = "object"
    /\ "api_key" \in DOMAIN resp.obj
    /\ resp.obj["api_key"] \in Keys

\* name conflict, any other status than 200, or a transport fault
Rejected(resp) ==
    \/ resp.kind = "fault"
    \/ resp.kind = "http" /\ resp.status # 200

NameConflict(resp) ==
    resp.kind = "http" /\ resp.status = 400 /\ resp.taken

\* the answer to profile p has been dealt with by the loop body
Handled(p) ==
    /\ regResponse[p] # NoResponse
    /\ ~(p = i /\ pc = "registered")

\* the number of profiles the invocation asks for, for a count between 0 and
\* the size of the catalog, or no count at all
Requested ==
    IF count = <<>> THEN Len(DEMO_AGENTS) ELSE Min(count[1], Len(DEMO_AGENTS))

CountInRange == count = <<>> \/ (0 <= count[1] /\ count[1] <= Len(DEMO_AGENTS))

(***************************************************************************)
(* C1: a run makes exactly min(k, catalog size) registration requests (the *)
(* whole catalog without k), one per profile and in catalog order,         *)
(* whatever the earlier registrations and posts were answered.             *)
(***************************************************************************)
C1_ExactRegistrations ==
    (pc \in {"done", "crashed"} /\ CountInRange) =>
        RegisteredNames = [k \in 1..Requested |-> DEMO_AGENTS[k].name]

(***************************************************************************)
(* C5: whatever the service answers, a run whose argument was accepted     *)
(* never aborts: it goes through every selected profile to the summary.    *)
(***************************************************************************)
C5_NeverAborts == pc # "crashed"

(***************************************************************************)
(* C7: a run over n >= 1 profiles pauses exactly n - 1 times.              *)
(***************************************************************************)
C7_PausesPerRun ==
    (pc \in {"done", "crashed"} /\ Len(agents) >= 1) => NumSleeps = Len(agents) - 1

(***************************************************************************)
(* C2: a profile whose registration is answered by a name conflict, by any *)
(* other status than 200 or by a transport fault gets no report entry and  *)
(* no post request, and the run goes on with the next profile.             *)
(***************************************************************************)
C2_RejectedSkipped ==
    \A p \in 1..Len(agents) :
        Rejected(regResponse[p]) =>
            /\ \A k \in 1..Len(registered) : registered[k]["location"] # agents[p].name
            /\ PostsOf(p) = {}
            /\ \A q \in 1..Len(log) : IsPost(log[q]) => log[q].name # agents[p].name
            /\ (i = p => pc \in {"registered", "delay"})
            /\ (i > p /\ p < Len(agents)) =>
                  LET rp == RegPos(p) IN
                      /\ Len(log) > rp
                      /\ log[rp + 1] = SleepEvent
                      /\ IF Len(log) > rp + 1
                         THEN log[rp + 2] = RegisterEvent(agents[p + 1].name)
                         ELSE pc = "register" /\ i = p + 1
            /\ (i > p /\ p = Len(agents)) => pc \in {"summary", "save", "done"}

C2_Witness ==
    /\ Len(agents) >= 2
    /\ NameConflict(regResponse[1])
    /\ regResponse[2] # NoResponse
    /\ pc = "done"

\* the names of the first p profiles that are dealt with and succeeded
RECURSIVE SucceededNames(_)
SucceededNames(p) ==
    IF p = 0 THEN <<>>
    ELSE IF Handled(p) /\ Succeeded(regResponse[p])
         THEN Append(SucceededNames(p - 1), DEMO_AGENTS[p].name)
         ELSE SucceededNames(p - 1)

\* the profiles the report names, in report order
ReportNames == [k \in 1..Len(registered) |-> registered[k]["location"]]

(***************************************************************************)
(* C3: the report only ever grows at its end, and it holds exactly the     *)
(* profiles whose registration succeeded, each once, in catalog order.     *)
(***************************************************************************)
C3_Report ==
    /\ [](ReportNames = SucceededNames(Len(DEMO_AGENTS)))
    /\ [][ /\ Len(registered') >= Len(registered)
           /\ Len(registered') <= Len(registered) + 1
           /\ SubSeq(registered', 1, Len(registered)) = registered ]_vars

C3_Witness ==
    /\ pc = "done"
    /\ Len(registered) >= 2
    /\ registered[1]["location"] = DEMO_AGENTS[1].name
    /\ registered[2]["location"] = DEMO_AGENTS[2].name

(***************************************************************************)
(* C4: for every agent registered with success the number of posts drawn   *)
(* lies in 1..5 and exactly that many post requests are sent, however each *)
(* of them ends: no request is skipped after a failure and none repeated.  *)
(***************************************************************************)
C4_PostCount ==
    \A p \in 1..Len(agents) :
        (Handled(p) /\ Succeeded(regResponse[p])) =>
            /\ postCountOf[p] \in 1..5
            /\ IF p = i /\ pc = "posts"
               THEN /\ post_count = postCountOf[p]
                    /\ Cardinality(PostsOf(p)) = j
                    /\ j <= post_count
               ELSE Cardinality(PostsOf(p)) = postCountOf[p]

C4_Witness ==
    /\ pc = "delay"
    /\ Succeeded(regResponse[i])
    /\ postCountOf[i] = 5
    /\ Cardinality(PostsOf(i)) = 5
    /\ lastOut = "created_posts"
    /\ i = 2
    /\ postCountOf[1] = 1

(***************************************************************************)
(* C6: every entry of the report carries a credential, the one the service *)
(* sent in its answer to that agent's registration, and the agent's local  *)
(* profile as its location.                                                *)
(***************************************************************************)
C6_Credential ==
    \A k \in 1..Len(registered) :
        /\ "api_key" \in DOMAIN registered[k]
        /\ registered[k]["api_key"] \in Keys
        /\ "location" \in DOMAIN registered[k]
        /\ \E p \in 1..Len(agents) :
              /\ agents[p].name = registered[k]["location"]
              /\ regResponse[p].kind = "http"
              /\ regResponse[p].status = 200
              /\ "api_key" \in DOMAIN regResponse[p].obj
              /\ regResponse[p].obj["api_key"] = registered[k]["api_key"]

C6_Witness ==
    /\ Len(registered) = 2
    /\ registered[1]["api_key"] # registered[2]["api_key"]
    /\ "location" \in DOMAIN regResponse[1].obj
    /\ regResponse[1].obj["location"] = ServerLocation

(***************************************************************************)
(* C8: when a run completes, the output file has been written if and only  *)
(* if at least one agent was registered; it is written once, after the     *)
(* whole pass, and holds one record per report entry, in report order.     *)
(***************************************************************************)
C8_OutputFile ==
    /\ fileWrites <= 1
    /\ (pc # "done") => (file = <<>> /\ fileWrites = 0)
    /\ (pc = "done") =>
          /\ (file # <<>>) <=> (\E p \in 1..Len(agents) : Succeeded(regResponse[p]))
          /\ (file # <<>>) <=> (registered # <<>>)
          /\ (file # <<>>) <=> (fileWrites = 1)
          /\ (file # <<>>) =>
                /\ Len(RegisteredNames) = Len(agents)
                /\ Len(file[1]) = Len(registered)
                /\ \A k \in 1..Len(registered) :
                      /\ file[1][k]["api_key"] = registered[k]["api_key"]
                      /\ file[1][k]["location"].name = registered[k]["location"]

C8_Witness ==
    /\ pc = "done"
    /\ file # <<>>
    /\ Len(file[1]) = 1
    /\ Len(agents) = 2
    /\ file[1][1]["location"].name = DEMO_AGENTS[2].name

\* arguments that are no integers: "abc", "", "1x", "1.5"
NotIntegers == { <<"a", "b", "c">>, <<>>, <<"1", "x">>, <<"1", ".", "5">> }

(***************************************************************************)
(* C9: with an argument that is no integer the program prints the usage    *)
(* and exits with a nonzero status before any request is sent or any file  *)
(* written; with no argument the whole catalog is the working subset.      *)
(***************************************************************************)
C9_BadArgument ==
    /\ (argv # <<>> /\ argv[1] \in NotIntegers) =>
          /\ pc \in {"main", "exited"}
          /\ log = <<>>
          /\ file = <<>>
          /\ fileWrites = 0
          /\ (pc = "exited") => (lastOut = "usage" /\ exitStatus > 0)
    /\ (pc = "exited") => (argv # <<>> /\ argv[1] \in NotIntegers)
    /\ (argv = <<>> /\ pc \notin {"main", "seed"}) =>
          /\ count = <<>>
          /\ agents = DEMO_AGENTS
          /\ (pc = "done") =>
                RegisteredNames = [k \in 1..Len(DEMO_AGENTS) |-> DEMO_AGENTS[k].name]

C9_Witness ==
    /\ pc = "exited"
    /\ argv = << <<"1", "x">> >>
    /\ lastOut = "usage"

(***************************************************************************)
(* C10: every post request carries the credential the service returned for *)
(* the profile being processed, and is sent after that profile's           *)
(* registration and before the next one: no post request carries another   *)
(* agent's credential, and none precedes the first successful registration.*)
(***************************************************************************)
C10_PostCredential ==
    /\ \A q \in 1..(NextRegFrom(1) - 1) : ~IsPost(log[q])
    /\ \A p \in 1..Len(agents) :
          \A q \in PostsOf(p) :
              /\ log[q].name = agents[p].name
              /\ Succeeded(regResponse[p])
              /\ log[q].key = regResponse[p].obj["api_key"]
    /\ LET names == RegisteredNames IN
          /\ Len(names) <= Len(agents)
          /\ \A k \in 1..Len(names) : names[k] = agents[k].name

C10_Witness ==
    /\ pc = "done"
    /\ \E q1, q2 \in 1..Len(log) :
          /\ q1 < q2
          /\ IsPost(log[q1]) /\ IsPost(log[q2])
          /\ log[q1].key # log[q2].key

====
